---- MODULE Spec2Model ----
(***************************************************************************)
(* PokerGrid: a 3x3 card-placement game (src/src/App.tsx).  The session    *)
(* state is the set of signals of the PokerGrid component; the operations  *)
(* are startGame, placeCard and the grid's onClick handler.  Signals that  *)
(* only drive presentation (language, dark mode, toast, the transient      *)
(* game message and its timers) are left out.                              *)
(***************************************************************************)
EXTENDS Integers, Sequences, FiniteSets, TLC

VARIABLES
  deck,            \* Card[]: createSignal<Card[]>([])
  grid,            \* (Card | null)[9]
  currentCard,     \* Card | null
  score,           \* number
  currentSeed,     \* string, as the sequence of its character codes
  gameOver,        \* boolean
  gameLog,         \* the clearing records, newest first
  showResultModal, \* boolean
  seededRandom,    \* the generator held by the signal: its closure's hash
  cleared,         \* history: the cards cleared from the grid in this session
  last,            \* history: the last call, its argument and the state before it
  twin,            \* a second, independent session (used by SpecTwin only)
  cards,           \* the triple handed to the classifier (used by SpecPure only)
  verdict          \* what the classifier answered (used by SpecPure only)

vars == <<deck, grid, currentCard, score, currentSeed, gameOver, gameLog,
          showResultModal, seededRandom, cleared, last, twin, cards, verdict>>

-----------------------------------------------------------------------------
(* Constants of the program *)

SUITS == <<"heart", "diamond", "spade", "club">>

RANKS == <<"A", "2", "3", "4", "5", "6", "7", "8", "9", "10", "J", "Q", "K">>

RANK_VALUES ==
  ("A" :> 1) @@ ("2" :> 2) @@ ("3" :> 3) @@ ("4" :> 4) @@ ("5" :> 5) @@
  ("6" :> 6) @@ ("7" :> 7) @@ ("8" :> 8) @@ ("9" :> 9) @@ ("10" :> 10) @@
  ("J" :> 11) @@ ("Q" :> 12) @@ ("K" :> 13)

SCORE_VALUES ==
  [flush |-> 50, straight |-> 100, threeOfAKind |-> 100, straightFlush |-> 200]

COMBO_MULTIPLIERS == (2 :> 2) @@ (3 :> 4) @@ (4 :> 8)

\* The 8 index-triples: rows, columns, diagonals (0-based cell indices).
PATTERNS ==
  << <<0, 1, 2>>, <<3, 4, 5>>, <<6, 7, 8>>,
     <<0, 3, 6>>, <<1, 4, 7>>, <<2, 5, 8>>,
     <<0, 4, 8>>, <<2, 4, 6>> >>

\* null, as a value comparable with a card
Null == [suit |-> "null", rank |-> "null"]

\* No pattern (getPatternType's null)
NoPattern == "null"

Cells == 0 .. 8

\* Array(9).fill(null)
EmptyGrid == [c \in Cells |-> Null]

Range(f) == {f[x] : x \in DOMAIN f}

Min(a, b) == IF a < b THEN a ELSE b

-----------------------------------------------------------------------------
(* The seeds the model starts games on, and the player's clicks.           *)
(* Each seed comes with a guide: the cells a player clicks, placement by   *)
(* placement, in one play of that seed.  The first MaxFree placements of a *)
(* session may go to any cell; after them the player clicks the cell the   *)
(* guide names for this placement if it is empty, and the lowest empty     *)
(* cell otherwise.  Of the calls that place nothing, the one on the lowest  *)
(* such cell is explored.                                                  *)

SEEDS ==
  <<
     \* "2092"
     [chars |-> <<50, 48, 57, 50>>,
      guide |-> <<3, 5, 1, 0, 2, 6, 8, 7, 4, 0, 1, 2, 0, 1, 4, 3, 7, 6, 0,
                1, 4, 7, 1, 2, 4, 6, 2, 3, 6, 0, 4, 6, 2, 4, 3, 5, 6, 8, 7,
                8, 4, 7, 0, 6, 4, 6, 2, 0, 1, 8, 2, 3>>],
     \* "92"
     [chars |-> <<57, 50>>,
      guide |-> <<1, 2, 3, 4, 6, 8, 0>>],
     \* "0"
     [chars |-> <<48>>,
      guide |-> <<0, 4, 7, 2, 1>>],
     \* "test1"
     [chars |-> <<116, 101, 115, 116, 49>>,
      guide |-> <<>>],
     \* "3b241101-e2bb-4255-8caf-4136c566a962"
     [chars |-> <<51, 98, 50, 52, 49, 49, 48, 49, 45, 101, 50, 98, 98, 45,
                52, 50, 53, 53, 45, 56, 99, 97, 102, 45, 52, 49, 51, 54, 99,
                53, 54, 54, 97, 57, 54, 50>>,
      guide |-> <<>>],
     \* "9f1c2d7e-5a4b-4c3d-8e2f-0a1b2c3d4e5f"
     [chars |-> <<57, 102, 49, 99, 50, 100, 55, 101, 45, 53, 97, 52, 98, 45,
                52, 99, 51, 100, 45, 56, 101, 50, 102, 45, 48, 97, 49, 98,
                50, 99, 51, 100, 52, 101, 53, 102>>,
      guide |-> <<>>]
  >>

Seeds == {SEEDS[k].chars : k \in 1 .. Len(SEEDS)}

\* The identifiers crypto.randomUUID() may return: the seeds of UUID form
Uuids == {sd \in Seeds : Len(sd) = 36}

\* An omitted seed (undefined); the empty string is falsy as well
NoSeed == <<>>

\* What startGame may be called with: a seed string, or nothing
SeedArgs == Seeds \cup {NoSeed}

-----------------------------------------------------------------------------
(* The deck and the seeded shuffle *)

\* for suit of SUITS, for rank of RANKS: push {suit, rank}
createDeck ==
  [k \in 1 .. (Len(SUITS) * Len(RANKS)) |->
     [suit |-> SUITS[((k - 1) \div Len(RANKS)) + 1],
      rank |-> RANKS[((k - 1) % Len(RANKS)) + 1]]]

AllCards == Range(createDeck)

\* A 32-bit integer from its two 16-bit halves (two's complement).
FromHalves(hi, lo) ==
  IF hi >= 32768 THEN (hi - 65536) * 65536 + lo ELSE hi * 65536 + lo

Lo16(x) == x % 65536

Hi16(x) == (x \div 65536) % 65536

\* acc << 5 on a 32-bit integer, as halves
ShiftLeft5Hi(acc) == (Hi16(acc) * 32 + ((Lo16(acc) * 32) \div 65536)) % 65536

ShiftLeft5Lo(acc) == (Lo16(acc) * 32) % 65536

\* ((acc << 5) - acc) + charCode | 0: the sum truncated to 32 bits
hashStep(acc, charCode) ==
  LET lo == ShiftLeft5Lo(acc) - Lo16(acc) + charCode
      hi == ShiftLeft5Hi(acc) - Hi16(acc) + (lo \div 65536)
  IN  FromHalves(hi % 65536, lo % 65536)

\* The reduce over the characters from position k on.  (Each iteration's
\* accumulator is bound through a singleton set, so that it is a value when
\* the next iteration starts.)
RECURSIVE hashReduce(_, _, _)
hashReduce(seed, k, acc) ==
  IF k > Len(seed) THEN acc
  ELSE CHOOSE h \in {hashReduce(seed, k + 1, next) :
                       next \in {hashStep(acc, seed[k])}} : TRUE

\* The hashes of the model's seeds, computed once
hashTable == {[seed |-> sd, hash |-> hashReduce(sd, 1, 0)] : sd \in Seeds}

\* Array.from(seed).reduce(..., 0)
hashSeed(seed) ==
  IF seed \in Seeds THEN (CHOOSE m \in hashTable : m.seed = seed).hash
  ELSE hashReduce(seed, 1, 0)

\* x - Math.floor(x) for x = Math.sin(hash) * 10000, in millionths (rounded
\* down), tabulated for the hashes the seeds of the model reach.  Math.sin is
\* the platform's; floor(r * (i + 1)) computed from these values agrees with
\* the double-precision result for every i of the shuffle.
SIN_TABLE ==
  <<
     \* hash of "2092"
     [base |-> 1537495,
      frac |-> <<428530, 264196, 804475, 490031, 629766, 79353, 324233, 8532,
                 350183, 708151, 153677, 510708, 168274, 627649, 562854, 351500,
                 381920, 580214, 32892, 38964, 255838, 39007, 497410, 730562,
                 218575, 459512, 257401, 378148, 330838, 841329, 981113, 704267,
                 555150, 855436, 500926, 860325, 121442, 950352, 161732, 718007,
                 420782, 137940, 630259, 260495, 907390, 855733, 974919, 163281,
                 176753, 939232, 530111>>],
     \* hash of "92"
     [base |-> 1817,
      frac |-> <<818239, 910655, 473769, 173076, 768012, 764452, 511362, 73360,
                 294093, 589729, 969854, 132595, 140375, 518270, 223973, 996201,
                 94001, 782186, 541670, 566605, 791760, 957055, 149108, 561039,
                 18223, 980084, 613313, 350869, 138722, 919339, 224258, 829094,
                 203677, 427030, 681248, 845213, 508394, 477059, 52803, 709236,
                 280840, 979387, 121825, 239849, 162682, 319535, 510703, 537091,
                 708810, 623622, 604795>>],
     \* hash of "0"
     [base |-> 48,
      frac |-> <<453386, 473472, 251462, 291758, 275920, 251501, 109511, 448266,
                 489979, 647552, 726480, 380071, 893788, 822299, 193033, 557003,
                 260381, 286794, 488459, 800210, 723193, 151862, 906815, 546532,
                 233627, 280431, 537395, 183645, 76368, 201585, 784559, 873312,
                 113460, 120057, 287824, 644611, 903200, 243800, 415529, 821633,
                 983027, 694058, 966636, 875117, 339303, 178587, 480145, 617147,
                 877454, 77390, 181280>>],
     \* hash of "test1"
     [base |-> 110251487,
      frac |-> <<291330, 457552, 171098, 959280, 137024, 782479, 788822, 763054,
                 840041, 142584, 442161, 92631, 803537, 652484, 380880, 72014,
                 570864, 224250, 748903, 139194, 570941, 548994, 281840, 440101,
                 321459, 526718, 134890, 816284, 976711, 500679, 840626, 374559,
                 803763, 462017, 988177, 797003, 459218, 141983, 832885, 738602,
                 776973, 292408, 661761, 414442, 539152, 916884, 986379, 516951,
                 365160, 889472, 814855>>],
     \* hash of "3b241101-e2bb-4255-8caf-4136c566a962"
     [base |-> -980408007,
      frac |-> <<135132, 409102, 767453, 180139, 839915, 735389, 293054, 556578,
                 5864, 892327, 428860, 687118, 291694, 862977, 613094, 232110,
                 674818, 388718, 715619, 647280, 535651, 132518, 118121, 546477,
                 734824, 4021, 650256, 242367, 547900, 936123, 375778, 639468,
                 766671, 979777, 573471, 515864, 24322, 543842, 140868, 542952,
                 42208, 577493, 881409, 171475, 342432, 957021, 545173, 198069,
                 494681, 999321, 132564>>],
     \* hash of "9f1c2d7e-5a4b-4c3d-8e2f-0a1b2c3d4e5f"
     [base |-> -2038476822,
      frac |-> <<344705, 292669, 119884, 266846, 691861, 435621, 202780, 512076,
                 839166, 190010, 40548, 309686, 770803, 340090, 309694, 223224,
                 454696, 368624, 241350, 230485, 693207, 528283, 637587, 943622,
                 762738, 740301, 274545, 588933, 519812, 596854, 649158, 452928,
                 538682, 499482, 332918, 622775, 559057, 588963, 780904, 302992,
                 606477, 658901, 707200, 140962, 927008, 113100, 124382, 791323,
                 571505, 645080, 143941>>]
  >>

sinFraction(hash) ==
  LET e == CHOOSE t \in Range(SIN_TABLE) :
             hash >= t.base /\ hash < t.base + Len(t.frac)
  IN  e.frac[hash - e.base + 1]

\* createSeededRandom(seed): the closure, as the hash it holds
createSeededRandom(seed) == [kind |-> "seeded", hash |-> hashSeed(seed)]

\* () => Math.random(): the signal's initial value, never called by the program
MathRandom == [kind |-> "mathRandom", hash |-> 0]

\* Math.floor(seededRandom()() * limit): the generator's next value times limit
randomIndex(gen, limit) == (sinFraction(gen.hash) * limit) \div 1000000

\* hash++ in the closure
advance(gen) == [gen EXCEPT !.hash = @ + 1]

\* [shuffled[i], shuffled[j]] = [shuffled[j], shuffled[i]] (0-based i, j)
swap(arr, i, j) == [arr EXCEPT ![i + 1] = arr[j + 1], ![j + 1] = arr[i + 1]]

\* for (let i = shuffled.length - 1; i > 0; i--) { j = ...; swap }
\* The result carries the generator, whose hash the loop has advanced.
RECURSIVE shuffleLoop(_, _, _)
shuffleLoop(shuffled, i, gen) ==
  IF i > 0
  THEN CHOOSE r \in {shuffleLoop(swapped, i - 1, advance(gen)) :
                       swapped \in {swap(shuffled, i, randomIndex(gen, i + 1))}} : TRUE
  ELSE [deck |-> shuffled, gen |-> gen]

\* The shuffles of a fresh deck under the generators of the model's seeds,
\* computed once
shuffleTable ==
  {[gen |-> createSeededRandom(sd),
    result |-> shuffleLoop(createDeck, Len(createDeck) - 1, createSeededRandom(sd))] :
     sd \in Seeds}

shuffleDeck(d, gen) ==
  IF d = createDeck /\ \E m \in shuffleTable : m.gen = gen
  THEN (CHOOSE m \in shuffleTable : m.gen = gen).result
  ELSE shuffleLoop(d, Len(d) - 1, gen)

-----------------------------------------------------------------------------
(* Pattern classification *)

\* cards.map(c => RANK_VALUES[c.rank]).sort((a, b) => a - b)
sortedValues(cs) ==
  SortSeq([k \in 1 .. Len(cs) |-> RANK_VALUES[cs[k].rank]], LAMBDA a, b : a < b)

isFlush(cs) == \A k \in 1 .. Len(cs) : cs[k].suit = cs[1].suit

\* isStraight on the values in the order of the cards, without the sort
isStraightUnsorted(cs) ==
  LET values == [k \in 1 .. Len(cs) |-> RANK_VALUES[cs[k].rank]]
  IN  IF values[1] = 1 /\ values[2] = 12 /\ values[3] = 13 THEN TRUE
      ELSE IF values[1] = 1 /\ values[2] = 2 /\ values[3] = 3 THEN TRUE
      ELSE values[2] = values[1] + 1 /\ values[3] = values[2] + 1

isStraight(cs) ==
  LET values == sortedValues(cs)
  IN  IF values[1] = 1 /\ values[2] = 12 /\ values[3] = 13 THEN TRUE
      ELSE IF values[1] = 1 /\ values[2] = 2 /\ values[3] = 3 THEN TRUE
      ELSE values[2] = values[1] + 1 /\ values[3] = values[2] + 1

isThreeOfAKind(cs) == \A k \in 1 .. Len(cs) : cs[k].rank = cs[1].rank

\* getPatternType with the flush test first
getPatternTypeFlushFirst(cs) ==
  IF isFlush(cs) THEN "flush"
  ELSE IF isStraight(cs) /\ isFlush(cs) THEN "straightFlush"
  ELSE IF isStraight(cs) THEN "straight"
  ELSE IF isThreeOfAKind(cs) THEN "threeOfAKind"
  ELSE NoPattern

getPatternType(cs) ==
  IF isStraight(cs) /\ isFlush(cs) THEN "straightFlush"
  ELSE IF isFlush(cs) THEN "flush"
  ELSE IF isStraight(cs) THEN "straight"
  ELSE IF isThreeOfAKind(cs) THEN "threeOfAKind"
  ELSE NoPattern

-----------------------------------------------------------------------------
(* The session and its operations.  A session is the record of the signals; *)
(* each operation maps the session before the call to the session after it. *)

Session ==
  [deck |-> deck, grid |-> grid, currentCard |-> currentCard, score |-> score,
   currentSeed |-> currentSeed, gameOver |-> gameOver, gameLog |-> gameLog,
   showResultModal |-> showResultModal, seededRandom |-> seededRandom]

\* The signals' initial values (the component before onMount)
NewSession ==
  [deck |-> <<>>, grid |-> EmptyGrid, currentCard |-> Null, score |-> 0,
   currentSeed |-> <<>>, gameOver |-> FALSE, gameLog |-> <<>>,
   showResultModal |-> FALSE, seededRandom |-> MathRandom]

\* A draw that leaves the drawn card in the deck
drawCardKeeping(s) ==
  IF Len(s.deck) = 0 THEN [s |-> s, card |-> Null]
  ELSE [s |-> s, card |-> s.deck[Len(s.deck)]]

\* The draw: the session with the popped deck, and the card (or null)
drawCard(s) ==
  IF Len(s.deck) = 0 THEN [s |-> s, card |-> Null]
  ELSE [s |-> [s EXCEPT !.deck = SubSeq(s.deck, 1, Len(s.deck) - 1)],
        card |-> s.deck[Len(s.deck)]]

displayCurrentCard(s, card) == [s EXCEPT !.currentCard = card]

\* pattern.map(index => grid()[index]).filter(Boolean)
patternCards(g, pattern) ==
  SelectSeq([k \in 1 .. Len(pattern) |-> g[pattern[k]]], LAMBDA c : c # Null)

\* The filter run over the three rows only
validPatternsOfRows(g) ==
  SelectSeq(SubSeq(PATTERNS, 1, 3),
            LAMBDA pattern :
              /\ Len(patternCards(g, pattern)) = 3
              /\ getPatternType(patternCards(g, pattern)) # NoPattern)

\* The filter of checkPatterns: the triples, in PATTERNS order, that hold three
\* cards forming a pattern
validPatternsOf(g) ==
  SelectSeq(PATTERNS,
            LAMBDA pattern :
              /\ Len(patternCards(g, pattern)) = 3
              /\ getPatternType(patternCards(g, pattern)) # NoPattern)

RECURSIVE sumBase(_, _)
sumBase(patternsWithType, k) ==
  IF k > Len(patternsWithType) THEN 0
  ELSE SCORE_VALUES[patternsWithType[k].patternType] + sumBase(patternsWithType, k + 1)

\* A multiplier that grows by one with each pattern
comboMultiplierLinear(n) == n

\* COMBO_MULTIPLIERS[Math.min(validPatterns.length, 4)] || 1
comboMultiplier(n) ==
  IF Min(n, 4) \in DOMAIN COMBO_MULTIPLIERS THEN COMBO_MULTIPLIERS[Min(n, 4)] ELSE 1

\* The share with the ratio taken as an integer quotient
roundedShareIntegerRatio(totalPoints, basePoints, baseTotalPoints) ==
  totalPoints * (basePoints \div baseTotalPoints)

\* Math.round(totalPoints * (SCORE_VALUES[patternType] / baseTotalPoints)):
\* the quotient rounded to the nearest integer, halves up
roundedShare(totalPoints, basePoints, baseTotalPoints) ==
  (2 * totalPoints * basePoints + baseTotalPoints) \div (2 * baseTotalPoints)

\* The cells of the first matched triple only
cellsOfFirstPattern(validPatterns) == Range(validPatterns[1])

\* new Set(validPatterns.flatMap(({ pattern }) => pattern))
cellsToRemoveOf(validPatterns) ==
  UNION {Range(validPatterns[k]) : k \in 1 .. Len(validPatterns)}

processPatterns(s, validPatterns) ==
  LET patternsWithType ==
        [k \in 1 .. Len(validPatterns) |->
           [pattern |-> validPatterns[k],
            patternType |-> getPatternType(patternCards(s.grid, validPatterns[k])),
            cards |-> patternCards(s.grid, validPatterns[k])]]
      baseTotalPoints == sumBase(patternsWithType, 1)
      multiplier == comboMultiplier(Len(validPatterns))
      totalPoints == baseTotalPoints * multiplier
      patternDetails ==
        [k \in 1 .. Len(patternsWithType) |->
           [type |-> patternsWithType[k].patternType,
            basePoints |-> SCORE_VALUES[patternsWithType[k].patternType],
            points |-> roundedShare(totalPoints,
                                    SCORE_VALUES[patternsWithType[k].patternType],
                                    baseTotalPoints),
            cards |-> patternsWithType[k].cards]]
      \* addToGameLog: one entry, put in front
      logEntry == [count |-> Len(validPatterns), totalPoints |-> totalPoints,
                   patternDetails |-> patternDetails]
      cellsToRemove == cellsToRemoveOf(validPatterns)
  IN  [s EXCEPT !.score = @ + totalPoints,
                !.gameLog = <<logEntry>> \o @,
                !.grid = [c \in Cells |-> IF c \in cellsToRemove THEN Null ELSE @[c]]]

checkPatterns(s) ==
  CHOOSE n \in {IF Len(validPatterns) > 0 THEN processPatterns(s, validPatterns) ELSE s :
                  validPatterns \in {validPatternsOf(s.grid)}} : TRUE

hasValidPatterns(s) ==
  \E k \in 1 .. Len(PATTERNS) :
    /\ \A j \in 1 .. Len(PATTERNS[k]) : s.grid[PATTERNS[k][j]] # Null
    /\ getPatternType([j \in 1 .. Len(PATTERNS[k]) |-> s.grid[PATTERNS[k][j]]]) # NoPattern

\* checkGameOver asking for both conditions at once
checkGameOverBoth(s) ==
  LET gridFull == \A c \in Cells : s.grid[c] # Null
      cardsEmpty == Len(s.deck) = 0 /\ s.currentCard = Null
  IN  IF (gridFull /\ ~hasValidPatterns(s)) /\ cardsEmpty
      THEN [s EXCEPT !.gameOver = TRUE, !.showResultModal = TRUE]
      ELSE s

\* checkGameOver without the test for exhausted cards
checkGameOverGridOnly(s) ==
  LET gridFull == \A c \in Cells : s.grid[c] # Null
  IN  IF gridFull /\ ~hasValidPatterns(s)
      THEN [s EXCEPT !.gameOver = TRUE, !.showResultModal = TRUE]
      ELSE s

\* checkGameOver with the deck alone deciding that the cards are exhausted
checkGameOverDeckOnly(s) ==
  LET gridFull == \A c \in Cells : s.grid[c] # Null
      cardsEmpty == Len(s.deck) = 0
  IN  IF (gridFull /\ ~hasValidPatterns(s)) \/ cardsEmpty
      THEN [s EXCEPT !.gameOver = TRUE, !.showResultModal = TRUE]
      ELSE s

checkGameOver(s) ==
  LET gridFull == \A c \in Cells : s.grid[c] # Null
      cardsEmpty == Len(s.deck) = 0 /\ s.currentCard = Null
  IN  IF (gridFull /\ ~hasValidPatterns(s)) \/ cardsEmpty
      THEN [s EXCEPT !.gameOver = TRUE, !.showResultModal = TRUE]
      ELSE s

\* placeCard without the test of the target cell
placeCardOverwriting(s, index) ==
  IF s.currentCard = Null THEN s
  ELSE LET placed == [s EXCEPT !.grid[index] = s.currentCard]
           checked == checkPatterns(placed)
           drawn == drawCard(checked)
       IN  checkGameOver(displayCurrentCard(drawn.s, drawn.card))

\* (The session each step leaves is bound through a singleton set, so that it
\* is a value when the next step starts.)
placeCard(s, index) ==
  IF s.grid[index] # Null \/ s.currentCard = Null THEN s
  ELSE CHOOSE n \in
         {checkGameOver(displayCurrentCard(drawn.s, drawn.card)) :
            drawn \in {drawCard(checked) :
              checked \in {checkPatterns(placed) :
                placed \in {[s EXCEPT !.grid[index] = s.currentCard]}}}} : TRUE

\* The grid cell's onClick: !gameOver() && !card && currentCard() && placeCard(index())
clickCell(s, index) ==
  IF ~s.gameOver /\ s.grid[index] = Null /\ s.currentCard # Null
  THEN placeCard(s, index)
  ELSE s

\* seed || crypto.randomUUID(), with uuid the identifier the platform returns
newSeedOf(seed, uuid) == IF seed = NoSeed THEN uuid ELSE seed

\* A generator made from the seed the session had before the call
seedGeneratorStale(s, newSeed) ==
  createSeededRandom(IF s.currentSeed = NoSeed THEN newSeed ELSE s.currentSeed)

\* setSeededRandom(() => createSeededRandom(newSeed))
seedGenerator(s, newSeed) == createSeededRandom(newSeed)

\* A reset that leaves the grid as it is
resetSessionKeepingGrid(s) ==
  [s EXCEPT !.score = 0, !.gameOver = FALSE,
            !.showResultModal = FALSE, !.gameLog = <<>>]

\* The signals startGame resets before it builds the deck
resetSession(s) ==
  [s EXCEPT !.grid = EmptyGrid, !.score = 0, !.gameOver = FALSE,
            !.showResultModal = FALSE, !.gameLog = <<>>]

startGame(s, seed, uuid) ==
  LET newSeed == newSeedOf(seed, uuid)
      seeded == [s EXCEPT !.currentSeed = newSeed,
                          !.seededRandom = seedGenerator(s, newSeed)]
      reset == resetSession(seeded)
      shuffled == shuffleDeck(createDeck, reset.seededRandom)
      dealt == [reset EXCEPT !.deck = shuffled.deck, !.seededRandom = shuffled.gen]
      drawn == drawCard(dealt)
  IN  displayCurrentCard(drawn.s, drawn.card)

\* deck().length - (currentCard() ? 1 : 0)
remainingCards(s) == Len(s.deck) - (IF s.currentCard # Null THEN 1 ELSE 0)

-----------------------------------------------------------------------------
(* The player's clicks *)

guideOf(seed) ==
  IF seed \in Seeds
  THEN (CHOOSE e \in Range(SEEDS) : e.chars = seed).guide
  ELSE <<>>

MaxFree == 1

\* The cards placed so far in the session s
placedCount(s) ==
  Len(createDeck) - Len(s.deck) - (IF s.currentCard # Null THEN 1 ELSE 0)

lowestEmpty(g) ==
  CHOOSE c \in Cells : g[c] = Null /\ \A d \in Cells : d < c => g[d] # Null

guidedCell(s) ==
  LET guide == guideOf(s.currentSeed)
      n == placedCount(s) + 1
  IN  IF n <= Len(guide) /\ s.grid[guide[n]] = Null THEN guide[n]
      ELSE lowestEmpty(s.grid)

\* Whether placeCard(index) returns early in session s
placesNothing(s, index) == s.grid[index] # Null \/ s.currentCard = Null

\* Whether the model explores a call on cell index in session s
explored(s, index) ==
  IF placesNothing(s, index)
  THEN \A d \in Cells : d < index => ~placesNothing(s, d)
  ELSE IF placedCount(s) < MaxFree THEN TRUE
  ELSE index = guidedCell(s)

-----------------------------------------------------------------------------
(* The state machine *)

\* The second session as constructed; sync: the two sessions were last started
\* together; differed: they were not in the same state at that start
NoTwin == [s |-> NewSession, sync |-> FALSE, differed |-> FALSE]

NoVerdict ==
  [evaluated |-> FALSE, type |-> NoPattern, straight |-> FALSE,
   flush |-> FALSE, threeOfAKind |-> FALSE]

\* The component as constructed: the signals' initial values, no call made
InitSession ==
  /\ deck = NewSession.deck
  /\ grid = NewSession.grid
  /\ currentCard = NewSession.currentCard
  /\ score = NewSession.score
  /\ currentSeed = NewSession.currentSeed
  /\ gameOver = NewSession.gameOver
  /\ gameLog = NewSession.gameLog
  /\ showResultModal = NewSession.showResultModal
  /\ seededRandom = NewSession.seededRandom
  /\ cleared = {}
  /\ last = [op |-> "init", index |-> -1, seed |-> NoSeed, before |-> NewSession]

Init ==
  /\ InitSession
  /\ twin = NoTwin
  /\ cards = <<>>
  /\ verdict = NoVerdict

\* The signals take the values of session n
install(n) ==
  /\ deck' = n.deck
  /\ grid' = n.grid
  /\ currentCard' = n.currentCard
  /\ score' = n.score
  /\ currentSeed' = n.currentSeed
  /\ gameOver' = n.gameOver
  /\ gameLog' = n.gameLog
  /\ showResultModal' = n.showResultModal
  /\ seededRandom' = n.seededRandom

\* The grid of s with the card in hand put on cell index
placedGrid(s, index) == [s.grid EXCEPT ![index] = s.currentCard]

\* The cards a call that turned session s into session n took off the grid
clearedBy(s, index, n) ==
  IF s.grid[index] # Null \/ s.currentCard = Null THEN {}
  ELSE {placedGrid(s, index)[c] : c \in {d \in Cells : n.grid[d] = Null}} \ {Null}

\* startGame(seed), or startGame() when seed is NoSeed
startGameCall(seed) ==
  \E uuid \in (IF seed = NoSeed THEN Uuids ELSE {NoSeed}) :
    \E n \in {startGame(Session, seed, uuid)} :
      /\ install(n)
      /\ cleared' = {}
      /\ last' = [op |-> "startGame", index |-> -1, seed |-> seed, before |-> Session]
      /\ UNCHANGED <<cards, verdict>>

StartGame(seed) == startGameCall(seed) /\ UNCHANGED twin

\* placeCard(index)
placeCardCall(index) ==
  /\ explored(Session, index)
  /\ \E n \in {placeCard(Session, index)} :
       /\ install(n)
       /\ cleared' = cleared \cup clearedBy(Session, index, n)
       /\ last' = [op |-> "placeCard", index |-> index, seed |-> NoSeed, before |-> Session]
       /\ UNCHANGED <<cards, verdict>>

PlaceCard(index) == placeCardCall(index) /\ UNCHANGED twin

\* A click on grid cell index
ClickCell(index) ==
  /\ explored(Session, index)
  /\ \E n \in {clickCell(Session, index)} :
       /\ install(n)
       /\ cleared' = cleared \cup (IF n = Session THEN {} ELSE clearedBy(Session, index, n))
       /\ last' = [op |-> "clickCell", index |-> index, seed |-> NoSeed, before |-> Session]
       /\ UNCHANGED <<twin, cards, verdict>>

Next ==
  \/ \E seed \in SeedArgs : StartGame(seed)
  \/ \E index \in Cells : PlaceCard(index)
  \/ \E index \in Cells : ClickCell(index)

Spec == Init /\ [][Next]_vars

-----------------------------------------------------------------------------
(* The classifier on its own: every triple of distinct cards, in every      *)
(* order, is handed to getPatternType and to the three tests it is built of *)

Triples ==
  {t \in AllCards \X AllCards \X AllCards : t[1] # t[2] /\ t[1] # t[3] /\ t[2] # t[3]}

InitPure ==
  /\ InitSession
  /\ twin = NoTwin
  /\ cards \in Triples
  /\ verdict = NoVerdict

Classify ==
  /\ ~verdict.evaluated
  /\ verdict' = [evaluated |-> TRUE,
                 type |-> getPatternType(cards),
                 straight |-> isStraight(cards),
                 flush |-> isFlush(cards),
                 threeOfAKind |-> isThreeOfAKind(cards)]
  /\ UNCHANGED <<deck, grid, currentCard, score, currentSeed, gameOver, gameLog,
                 showResultModal, seededRandom, cleared, last, twin, cards>>

NextPure == Classify

SpecPure == InitPure /\ [][NextPure]_vars

-----------------------------------------------------------------------------
(* Two sessions side by side.  Each has a past of its own: none, or a game   *)
(* started on any seed with up to MaxSolo placements along the seed's guide. *)
(* Then both are started on the same seed and get the same calls of          *)
(* placeCard.                                                                *)

MaxSolo == 2

SoloStart(seed) ==
  /\ ~twin.sync
  /\ currentSeed = NoSeed
  /\ startGameCall(seed)
  /\ UNCHANGED twin

SoloPlace(index) ==
  /\ ~twin.sync
  /\ placedCount(Session) < MaxSolo
  /\ index = guidedCell(Session)
  /\ placeCardCall(index)
  /\ UNCHANGED twin

TwinStart(seed) ==
  /\ ~twin.sync
  /\ twin.s.currentSeed = NoSeed
  /\ \E uuid \in (IF seed = NoSeed THEN Uuids ELSE {NoSeed}) :
       twin' = [twin EXCEPT !.s = startGame(twin.s, seed, uuid)]
  /\ UNCHANGED <<deck, grid, currentCard, score, currentSeed, gameOver, gameLog,
                 showResultModal, seededRandom, cleared, last, cards, verdict>>

TwinPlace(index) ==
  /\ ~twin.sync
  /\ placedCount(twin.s) < MaxSolo
  /\ index = guidedCell(twin.s)
  /\ twin' = [twin EXCEPT !.s = placeCard(twin.s, index)]
  /\ UNCHANGED <<deck, grid, currentCard, score, currentSeed, gameOver, gameLog,
                 showResultModal, seededRandom, cleared, last, cards, verdict>>

\* startGame(seed) in both sessions
BothStart(seed) ==
  /\ ~twin.sync
  /\ startGameCall(seed)
  /\ twin' = [s |-> startGame(twin.s, seed, NoSeed), sync |-> TRUE,
              differed |-> Session # twin.s]

\* placeCard(index) in both sessions
BothPlace(index) ==
  /\ twin.sync
  /\ placeCardCall(index)
  /\ twin' = [twin EXCEPT !.s = placeCard(twin.s, index)]

NextTwin ==
  \/ \E seed \in SeedArgs : SoloStart(seed)
  \/ \E index \in Cells : SoloPlace(index)
  \/ \E seed \in SeedArgs : TwinStart(seed)
  \/ \E index \in Cells : TwinPlace(index)
  \/ \E seed \in Seeds : BothStart(seed)
  \/ \E index \in Cells : BothPlace(index)

SpecTwin == Init /\ [][NextTwin]_vars

-----------------------------------------------------------------------------
(* One session played to its end: the game is started once, as the component *)
(* does when it mounts, and the player keeps placing the card in hand as     *)
(* long as a cell takes it.                                                  *)

\* The one startGame of the session
StartOnce(seed) ==
  /\ currentSeed = NoSeed
  /\ StartGame(seed)

\* A call or click that puts the card in hand on a cell
Placement ==
  \E index \in Cells :
    /\ ~gameOver
    /\ ~placesNothing(Session, index)
    /\ (PlaceCard(index) \/ ClickCell(index))

NextLive ==
  \/ \E seed \in SeedArgs : StartOnce(seed)
  \/ \E index \in Cells : PlaceCard(index)
  \/ \E index \in Cells : ClickCell(index)

SpecLive ==
  /\ Init
  /\ [][NextLive]_vars
  /\ WF_vars(\E seed \in SeedArgs : StartOnce(seed))
  /\ WF_vars(Placement)

-----------------------------------------------------------------------------
(* Properties *)

\* The last call was a call of op
lastCall(op) == last.op = op

\* C1: placeCard(index) does nothing when the target cell is occupied, when
\* no card is held, or when the game is over: in every reachable state where
\* one of the three holds for an index 0..8, the call returns the session as it
\* was (grid, deck, current card, score, gameOver, log and the rest), and every
\* such call that was made left the session as it found it.
PlaceCardNoOp ==
  /\ \A index \in Cells :
       (grid[index] # Null \/ currentCard = Null \/ gameOver)
         => placeCard(Session, index) = Session
  /\ ( /\ lastCall("placeCard")
       /\ \/ last.before.grid[last.index] # Null
          \/ last.before.currentCard = Null
          \/ last.before.gameOver )
       => Session = last.before

\* placeCard was called when the game was over
PlaceCardCalledWhenOver ==
  /\ lastCall("placeCard")
  /\ last.before.gameOver
  /\ gameOver

\* The last call was a placement that went through: a call of placeCard, direct
\* or from a click, on an empty cell, with a card in hand, in a session that
\* was not over
SuccessfulPlacement ==
  /\ last.op \in {"placeCard", "clickCell"}
  /\ last.before.grid[last.index] = Null
  /\ last.before.currentCard # Null
  /\ ~last.before.gameOver

\* The grid right after the last placement put its card down, before clearing
lastPlacedGrid == placedGrid(last.before, last.index)

gridIsFull(g) == \A c \in Cells : g[c] # Null

\* C2: after a successful placement in a session that was not over, gameOver
\* is true exactly when, on the state after clearing and after the draw, the
\* grid is full with no valid triple, or the deck is empty and no card is
\* held; a placement that fills the ninth cell and completes a pattern does
\* not end the game while cards remain.
GameOverExactly ==
  SuccessfulPlacement =>
    /\ gameOver <=> \/ gridIsFull(grid) /\ validPatternsOf(grid) = <<>>
                    \/ Len(deck) = 0 /\ currentCard = Null
    /\ ( /\ gridIsFull(lastPlacedGrid)
         /\ validPatternsOf(lastPlacedGrid) # <<>>
         /\ (Len(deck) > 0 \/ currentCard # Null) )
         => ~gameOver

\* A placement filled the ninth cell, completed a pattern, and the game goes on
NinthCellCompletesPattern ==
  /\ SuccessfulPlacement
  /\ gridIsFull(lastPlacedGrid)
  /\ validPatternsOf(lastPlacedGrid) # <<>>
  /\ ~gameOver

\* The base points and combo multipliers of the scoring table
tablePoints(type) ==
  CASE type = "flush" -> 50
    [] type = "straight" -> 100
    [] type = "threeOfAKind" -> 100
    [] type = "straightFlush" -> 200

tableMultiplier(n) ==
  CASE n = 1 -> 1
    [] n = 2 -> 2
    [] n = 3 -> 4
    [] n >= 4 -> 8

\* The sum of the table's base points over the triples of g, from the k-th on,
\* that are fully occupied and form a pattern
RECURSIVE tableSum(_, _)
tableSum(g, k) ==
  IF k > Len(validPatternsOf(g)) THEN 0
  ELSE tablePoints(getPatternType(patternCards(g, validPatternsOf(g)[k])))
         + tableSum(g, k + 1)

\* The patterns the last placement completed
lastCompleted == Len(validPatternsOf(lastPlacedGrid))

\* C3: a successful placement that completes N >= 1 patterns raises the score
\* by exactly the sum of their base points (flush 50, straight 100, three of a
\* kind 100, straight flush 200) times the multiplier 1, 2, 4, 8 for N = 1, 2,
\* 3, >= 4; one that completes none leaves the score as it was; the score is
\* never negative and no placement lowers it.
ScoreByTable ==
  /\ SuccessfulPlacement =>
       /\ lastCompleted >= 1 =>
            score = last.before.score
                      + tableSum(lastPlacedGrid, 1) * tableMultiplier(lastCompleted)
       /\ lastCompleted = 0 => score = last.before.score
  /\ score >= 0
  /\ last.op \in {"placeCard", "clickCell"} => score >= last.before.score

\* A placement completed four patterns at once
FourPatternsScored ==
  /\ SuccessfulPlacement
  /\ lastCompleted = 4
  /\ score > last.before.score

\* The triples of grid g whose three cells are occupied and whose cards form a
\* pattern
matchedTriples(g) ==
  {k \in 1 .. Len(PATTERNS) :
     /\ \A j \in 1 .. 3 : g[PATTERNS[k][j]] # Null
     /\ getPatternType([j \in 1 .. 3 |-> g[PATTERNS[k][j]]]) # NoPattern}

matchedCells(g) == UNION {Range(PATTERNS[k]) : k \in matchedTriples(g)}

\* C6: after a successful placement the cells emptied are exactly the union of
\* the triples that were fully occupied and formed a pattern on the grid with
\* the placed card; the triples the program matched are those and no triple
\* with an empty cell; a cell of two matched triples is emptied like any
\* other; every cell outside the union keeps what it held after the card was
\* put down.
ClearsUnionOfMatched ==
  SuccessfulPlacement =>
    /\ {c \in Cells : lastPlacedGrid[c] # Null /\ grid[c] = Null}
         = matchedCells(lastPlacedGrid)
    /\ Range(validPatternsOf(lastPlacedGrid))
         = {PATTERNS[k] : k \in matchedTriples(lastPlacedGrid)}
    /\ \A k \in 1 .. Len(validPatternsOf(lastPlacedGrid)) :
         \A c \in Range(validPatternsOf(lastPlacedGrid)[k]) : lastPlacedGrid[c] # Null
    /\ \A c \in Cells \ matchedCells(lastPlacedGrid) : grid[c] = lastPlacedGrid[c]
    /\ Cardinality(clearedBy(last.before, last.index, Session))
         = Cardinality(matchedCells(lastPlacedGrid))

\* A placement matched two triples that share a cell, and cleared both while
\* another card stayed on the grid
OverlappingTriplesCleared ==
  /\ SuccessfulPlacement
  /\ \E k1, k2 \in matchedTriples(lastPlacedGrid) :
       /\ k1 # k2
       /\ Range(PATTERNS[k1]) \cap Range(PATTERNS[k2]) # {}
  /\ \E c \in Cells : grid[c] # Null

\* startGame has been called: it is what sets the seed
started == currentSeed # NoSeed

\* Where the cards are
inDeck == Range(deck)

inHand == {currentCard} \ {Null}

onGrid == Range(grid) \ {Null}

occupiedCells == {c \in Cells : grid[c] # Null}

\* C7: once a game has been started, the deck, the card in hand, the cards on
\* the grid and the cards cleared in this session are pairwise disjoint and
\* together are the 52 distinct cards; no card is twice in the deck or on two
\* cells; a cleared card is in none of the other places; no placement makes
\* the deck longer.
CardConservation ==
  started =>
    /\ Cardinality(AllCards) = 52
    /\ inDeck \cup inHand \cup onGrid \cup cleared = AllCards
    /\ inDeck \cap inHand = {}
    /\ inDeck \cap onGrid = {}
    /\ inDeck \cap cleared = {}
    /\ inHand \cap onGrid = {}
    /\ inHand \cap cleared = {}
    /\ onGrid \cap cleared = {}
    /\ Cardinality(inDeck) = Len(deck)
    /\ Cardinality(onGrid) = Cardinality(occupiedCells)
    /\ Len(deck) + Cardinality(inHand) + Cardinality(occupiedCells)
         + Cardinality(cleared) = 52
    /\ last.op \in {"placeCard", "clickCell"} => Len(deck) <= Len(last.before.deck)

\* After a placement that cleared cards there are cards in all four places
CardsInAllFourPlaces ==
  /\ SuccessfulPlacement
  /\ lastCompleted >= 1
  /\ inDeck # {}
  /\ inHand # {}
  /\ onGrid # {}
  /\ cleared # {}

\* The swap index the shuffle of the current seed picked at position i (the
\* generator has been called Len(createDeck) - 1 - i times before)
swapIndexAt(i) ==
  randomIndex([kind |-> "seeded",
               hash |-> hashSeed(currentSeed) + (Len(createDeck) - 1 - i)], i + 1)

\* C9: whatever the state startGame is called in, the session it leaves is
\* fresh: the 9 cells empty, score 0, gameOver false, the log empty, a deck of
\* 51 cards and a card in hand that together are the 52 distinct cards, every
\* swap index of the shuffle within 0..i; and a session that is over stays
\* over under every call but startGame.
StartGameFresh ==
  /\ lastCall("startGame") =>
       /\ grid = EmptyGrid
       /\ score = 0
       /\ ~gameOver
       /\ gameLog = <<>>
       /\ Len(deck) = 51
       /\ currentCard # Null
       /\ Range(deck) \cup {currentCard} = AllCards
       /\ Cardinality(Range(deck) \cup {currentCard}) = 52
       /\ \A i \in 1 .. Len(createDeck) - 1 : swapIndexAt(i) \in 0 .. i
  /\ (last.before.gameOver /\ ~gameOver) => lastCall("startGame")

\* startGame was called on a session that was over with points scored
StartedFromGameOver ==
  /\ lastCall("startGame")
  /\ last.before.gameOver
  /\ last.before.score > 0
  /\ \E c \in Cells : last.before.grid[c] # Null
  /\ ~gameOver

\* The rank values of the triple in hand, as a set
cardValues == {RANK_VALUES[cards[k].rank] : k \in 1 .. 3}

sameSuit == cards[1].suit = cards[2].suit /\ cards[2].suit = cards[3].suit

sameRank == cards[1].rank = cards[2].rank /\ cards[2].rank = cards[3].rank

\* The values are v, v+1, v+2, or 1, 12, 13
formsStraight ==
  \/ \E v \in 1 .. 11 : cardValues = {v, v + 1, v + 2}
  \/ cardValues = {1, 12, 13}

\* C4: getPatternType answers by priority, first match winning: straightFlush
\* for a same-suit straight, else flush for a same suit, else straight, else
\* threeOfAKind for three identical ranks, else no pattern; a same-suit
\* consecutive triple is never reported as flush or straight.
ClassifiesByPriority ==
  verdict.evaluated =>
    /\ verdict.type =
         (IF sameSuit /\ formsStraight THEN "straightFlush"
          ELSE IF sameSuit THEN "flush"
          ELSE IF formsStraight THEN "straight"
          ELSE IF sameRank THEN "threeOfAKind"
          ELSE NoPattern)
    /\ (sameSuit /\ formsStraight) => verdict.type \notin {"flush", "straight"}

\* A same-suit consecutive triple, given out of order, was classified
StraightFlushClassified ==
  /\ verdict.evaluated
  /\ sameSuit
  /\ cardValues = {5, 6, 7}
  /\ RANK_VALUES[cards[1].rank] = 7
  /\ verdict.type = "straightFlush"

\* The ranks of the triple in hand, as a set
cardRanks == {cards[k].rank : k \in 1 .. 3}

\* The triple in hand in another order
permuted(p) == [k \in 1 .. 3 |-> cards[p[k]]]

Permutations3 ==
  {<<1, 2, 3>>, <<1, 3, 2>>, <<2, 1, 3>>, <<2, 3, 1>>, <<3, 1, 2>>, <<3, 2, 1>>}

\* C5: isStraight is true exactly when the rank values (A = 1 .. K = 13) sorted
\* ascending are v, v+1, v+2 or are 1, 12, 13; so A,K,Q and A,2,3 are straights,
\* A,J,Q and K,A,2 are not; the answer is the same for every order of the cards.
StraightExactly ==
  verdict.evaluated =>
    /\ verdict.straight <=> formsStraight
    /\ cardRanks = {"A", "K", "Q"} => verdict.straight
    /\ cardRanks = {"A", "2", "3"} => verdict.straight
    /\ cardRanks = {"A", "J", "Q"} => ~verdict.straight
    /\ cardRanks = {"K", "A", "2"} => ~verdict.straight
    /\ \A p \in Permutations3 : isStraight(permuted(p)) = verdict.straight

\* King, ace, queen, handed over in that order, were found to be a straight
KingAceQueenStraight ==
  /\ verdict.evaluated
  /\ cards[1].rank = "K"
  /\ cards[2].rank = "A"
  /\ cards[3].rank = "Q"
  /\ verdict.straight

\* C8: two sessions started on the same seed string have the same deck order
\* and first card, whatever each went through before its start; given the
\* same calls of placeCard afterwards they have the same grid, deck, current
\* card, score and gameOver at every step.
SeedDeterminism ==
  twin.sync =>
    /\ twin.s.deck = deck
    /\ twin.s.currentCard = currentCard
    /\ twin.s.grid = grid
    /\ twin.s.score = score
    /\ twin.s.gameOver = gameOver

\* Two sessions in different states were started on one seed and a placement
\* made in both has since cleared a pattern
TwinsClearedTogether ==
  /\ twin.sync
  /\ twin.differed
  /\ SuccessfulPlacement
  /\ lastCompleted >= 1
  /\ twin.s.score > 0

\* The cards of session s that are still to be placed: in the deck or in hand
cardsLeft(s) == Len(s.deck) + (IF s.currentCard # Null THEN 1 ELSE 0)

\* The cards placed in this session: those on the grid and those cleared
cardsPlaced == Cardinality(occupiedCells) + Cardinality(cleared)

PlacementsCountDown ==
  /\ SuccessfulPlacement => cardsLeft(Session) = cardsLeft(last.before) - 1
  /\ started => cardsPlaced + cardsLeft(Session) = 52
  /\ cardsPlaced <= 52
  /\ (SuccessfulPlacement /\ cardsPlaced = 52) =>
       /\ Len(deck) = 0
       /\ currentCard = Null
       /\ gameOver

\* C10: every successful placement lowers the number of cards in the deck and
\* in hand by exactly one, so at most 52 placements succeed in a session; when
\* the 52nd card is placed the deck is empty, no card is held and gameOver is
\* true; and a session in which the player keeps placing while a placement is
\* possible, and which is not restarted, eventually reaches gameOver.
SessionTerminates ==
  /\ []PlacementsCountDown
  /\ started ~> gameOver

\* The 52nd card was placed and the game is over on a grid that is not full
LastCardPlaced ==
  /\ SuccessfulPlacement
  /\ cardsPlaced = 52
  /\ gameOver
  /\ ~gridIsFull(grid)

\* The newest record of the log
newestEntry == gameLog[1]

RECURSIVE sumPoints(_, _)
sumPoints(patternDetails, k) ==
  IF k > Len(patternDetails) THEN 0
  ELSE patternDetails[k].points + sumPoints(patternDetails, k + 1)

\* p is num / den rounded to the nearest integer, halves up
isRounded(p, num, den) ==
  /\ 2 * p * den - den <= 2 * num
  /\ 2 * num < 2 * p * den + den

\* After a placement that matched patterns, each pattern's points in the log
\* are round(totalPoints * basePoints / baseTotalPoints)
PointsAreRoundedShares ==
  (SuccessfulPlacement /\ lastCompleted >= 1) =>
    /\ newestEntry.count = lastCompleted
    /\ Len(newestEntry.patternDetails) = lastCompleted
    /\ newestEntry.totalPoints = score - last.before.score
    /\ \A k \in 1 .. Len(newestEntry.patternDetails) :
         isRounded(newestEntry.patternDetails[k].points,
                   newestEntry.totalPoints * newestEntry.patternDetails[k].basePoints,
                   tableSum(lastPlacedGrid, 1))

\* The pattern types that 2 to 4 triples matched at once can have
PatternTypes == DOMAIN SCORE_VALUES

Combos == UNION {[1 .. n -> PatternTypes] : n \in 2 .. 4}

RECURSIVE comboBase(_, _)
comboBase(combo, k) ==
  IF k > Len(combo) THEN 0 ELSE SCORE_VALUES[combo[k]] + comboBase(combo, k + 1)

comboTotal(combo) == comboBase(combo, 1) * comboMultiplier(Len(combo))

RECURSIVE comboShares(_, _)
comboShares(combo, k) ==
  IF k > Len(combo) THEN 0
  ELSE roundedShare(comboTotal(combo), SCORE_VALUES[combo[k]], comboBase(combo, 1))
         + comboShares(combo, k + 1)

\* C11, as amended: each matched pattern's points in the log are
\* round(totalPoints * basePoints / baseTotalPoints), which is the pattern's
\* base points times the combo multiplier, and the points of the patterns of
\* one placement always sum to its total.
PointsSumToTotal ==
  /\ PointsAreRoundedShares
  /\ (SuccessfulPlacement /\ lastCompleted >= 1) =>
       /\ \A k \in 1 .. Len(newestEntry.patternDetails) :
            newestEntry.patternDetails[k].points
              = newestEntry.patternDetails[k].basePoints * tableMultiplier(lastCompleted)
       /\ sumPoints(newestEntry.patternDetails, 1) = newestEntry.totalPoints

\* A placement matched a flush and a straight at once: 100 and 200 of 300
UnequalSharesLogged ==
  /\ SuccessfulPlacement
  /\ lastCompleted >= 2
  /\ \E j, k \in 1 .. Len(newestEntry.patternDetails) :
       newestEntry.patternDetails[j].points # newestEntry.patternDetails[k].points

\* C11: each matched pattern's points are round(totalPoints * basePoints /
\* baseTotalPoints), and the rounding can make the points of the patterns of
\* one placement sum to something else than the total: once a placement has
\* matched two or more patterns, some combination of 2 to 4 pattern types has
\* shares that do not sum to its total.
RoundingBreaksSum ==
  /\ PointsAreRoundedShares
  /\ (SuccessfulPlacement /\ lastCompleted >= 2) =>
       \E combo \in Combos : comboShares(combo, 1) # comboTotal(combo)

\* The most triples that a placement on cell index can match
mostPatternsAt(index) ==
  IF index \in {1, 3, 5, 7} THEN 2
  ELSE IF index \in {0, 2, 6, 8} THEN 3
  ELSE 4

\* C12: once a call has run to completion no fully occupied triple of the grid
\* is a valid pattern; so every triple a placement matches contains the cell
\* just placed, a placement matches at most 2 patterns on an edge cell, at
\* most 3 on a corner cell and at most 4 on the centre cell, and never more
\* than 4.
NoPatternLeftOnGrid ==
  /\ matchedTriples(grid) = {}
  /\ validPatternsOf(grid) = <<>>
  /\ SuccessfulPlacement =>
       /\ \A k \in matchedTriples(lastPlacedGrid) : last.index \in Range(PATTERNS[k])
       /\ lastCompleted = Cardinality(matchedTriples(lastPlacedGrid))
       /\ lastCompleted <= mostPatternsAt(last.index)
       /\ lastCompleted <= 4

\* A placement on a corner cell matched three patterns, and the row, the
\* column and the diagonal through the corner are empty afterwards
CornerMatchedThree ==
  /\ SuccessfulPlacement
  /\ last.index \in {0, 2, 6, 8}
  /\ lastCompleted = 3
  /\ grid[last.index] = Null
  /\ grid[4] = Null

\* A placement can succeed: a card is held and a cell is empty
placementPossible == currentCard # Null /\ \E c \in Cells : grid[c] = Null

\* C13: once a game has been started, gameOver is false exactly when a
\* placement can succeed, that is when a card is held and a cell is empty; the
\* session is never running with a full grid or an empty hand, and never over
\* while a card could still be placed.
NoStuckState ==
  started =>
    /\ ~gameOver <=> placementPossible
    /\ ~gameOver => (~gridIsFull(grid) /\ currentCard # Null)
    /\ gameOver => \A index \in Cells : placeCard(Session, index) = Session

\* The game is over on a full grid with a card still in hand
OverWithCardInHand ==
  /\ started
  /\ gameOver
  /\ gridIsFull(grid)
  /\ currentCard # Null
  /\ Len(deck) > 0

\* C14: the remaining-card count shown to the player, the deck's length minus
\* 1 when a card is held, is never negative once a game has been started, also
\* when the last card of the deck is in hand.
RemainingNeverNegative ==
  started => remainingCards(Session) >= 0

====
